---- MODULE Spec2Model ----
(***************************************************************************)
(* Model of the weekly report converter (src/app.py): the text refiner    *)
(* refine_text, the per-period aggregation summarize, the conversion       *)
(* process_report_data for spreadsheet and PDF input, and the history      *)
(* list with its on-disk mirror.                                           *)
(*                                                                         *)
(* A text is a sequence of tokens.  A token is one character or one        *)
(* Korean word of the source, written in ASCII:                            *)
(*   " "  space            "\n" newline          "*"  the bullet glyph     *)
(*   "-"  the dash         "nan" the letters nan "NaN" the same, mixed case*)
(*   "JINHAENG" 진행        "JUNG" 중              "IMNIDA" 입니다            *)
(*   "WANRYO" 완료          "HAESS" 했습니다         "HAYEOSS" 하였습니다       *)
(*   "YEJEONG" 예정         "PALLOEOP" 팔로업       "PALLOUEOP" 팔로우업       *)
(*   "F/U" the letters F/U "TIMWON" 팀원          "PROJEKT" 프로젝트          *)
(*   "MYEONG" 명 (a suffix, as in 프로젝트명)                                 *)
(*   "P" "Q" "x" "y" "fi" "ce"  plain letters                              *)
(* No token is a prefix of another and no pattern of the source can match  *)
(* across a token boundary, so matching on tokens is matching on the       *)
(* characters they stand for.                                              *)
(***************************************************************************)
EXTENDS Integers, Sequences, FiniteSets, TLC

VARIABLES
    segs,          \* SpecRefine: the pieces of the text handed to refine_text
    refined,       \* SpecRefine: refine_text(text), once called
    refined2,      \* SpecRefine: refine_text of that result
    rows,          \* SpecSummarize: the raw record list handed to summarize
    grouped,       \* SpecSummarize: summarize(rows), once called
    file_kind,     \* Spec: "xlsx" or "pdf" (file.name.endswith('.pdf'))
    grid,          \* Spec: the rows of the uploaded sheet / page table
    phase,         \* where the run is: Spec "upload", "done"; SpecRefine "text",
                   \* "once", "twice"; SpecSummarize "records", "summarized";
                   \* SpecHistory "session"
    message,       \* Spec: what process_report_data showed with st.error / st.warning
    final_df,      \* Spec: what process_report_data returned, NoTable for None
    history,       \* SpecHistory: st.session_state['history']
    history_file,  \* SpecHistory: content of history_data.json, NoFile when absent
    clock          \* SpecHistory: datetime.now(), in ticks

vars == <<segs, refined, refined2, rows, grouped, file_kind, grid, phase,
          message, final_df, history, history_file, clock>>

refineVars == <<segs, refined, refined2>>
summarizeVars == <<rows, grouped>>
reportVars == <<file_kind, grid, message, final_df>>
historyVars == <<history, history_file, clock>>

----------------------------------------------------------------------------
(* Tokens and Python's string operations on token sequences *)

SP == " "
NL == "\n"
BUL == "*"
DASH == "-"

\* str.lower() of one token
Lower(t) == IF t = "NaN" THEN "nan"
            ELSE IF t = "P" THEN "p"
            ELSE IF t = "Q" THEN "q"
            ELSE IF t = "F/U" THEN "f/u"
            ELSE t

LowerText(s) == [i \in 1..Len(s) |-> Lower(s[i])]

IsSpace(t) == t \in {SP, NL}

RECURSIVE LStrip(_)
LStrip(s) == IF s = <<>> THEN s
             ELSE IF IsSpace(Head(s)) THEN LStrip(Tail(s)) ELSE s

RECURSIVE RStrip(_)
RStrip(s) == IF s = <<>> THEN s
             ELSE IF IsSpace(s[Len(s)]) THEN RStrip(SubSeq(s, 1, Len(s) - 1)) ELSE s

\* str.strip()
Strip(s) == RStrip(LStrip(s))

\* str.replace(t, '') for a one-token t
RemoveTok(s, t) == SelectSeq(s, LAMBDA c : c # t)

\* does pat occur in s at position i
MatchAt(s, i, pat) ==
    /\ i + Len(pat) - 1 <= Len(s)
    /\ SubSeq(s, i, i + Len(pat) - 1) = pat

\* the length of the first alternative of opts that occurs in s at i, 0 if none:
\* the optional group (a|b)? of the source's patterns, which is greedy
RECURSIVE OptLen(_, _, _)
OptLen(s, i, opts) ==
    IF opts = <<>> THEN 0
    ELSE IF MatchAt(s, i, Head(opts)) THEN Len(Head(opts))
    ELSE OptLen(s, i, Tail(opts))

\* re.sub(base(opts)?, repl, s) from position i on: leftmost, non-overlapping
RECURSIVE ReSubFrom(_, _, _, _, _)
ReSubFrom(s, i, base, opts, repl) ==
    IF i > Len(s) THEN <<>>
    ELSE IF MatchAt(s, i, base)
         THEN LET j == i + Len(base)
              IN  repl \o ReSubFrom(s, j + OptLen(s, j, opts), base, opts, repl)
         ELSE <<s[i]>> \o ReSubFrom(s, i + 1, base, opts, repl)

ReSub(s, base, opts, repl) == ReSubFrom(s, 1, base, opts, repl)

\* str.replace(pat, repl)
Replace(s, pat, repl) == ReSubFrom(s, 1, pat, <<>>, repl)

\* str.split('\n'): the pieces between the separators, '' included
RECURSIVE SplitFrom(_, _, _)
SplitFrom(s, i, cur) ==
    IF i > Len(s) THEN <<cur>>
    ELSE IF s[i] = NL THEN <<cur>> \o SplitFrom(s, i + 1, <<>>)
    ELSE SplitFrom(s, i + 1, Append(cur, s[i]))

SplitLines(s) == SplitFrom(s, 1, <<>>)

\* sep.join(parts)
RECURSIVE Join(_, _)
Join(parts, sep) ==
    IF parts = <<>> THEN <<>>
    ELSE IF Len(parts) = 1 THEN parts[1]
    ELSE parts[1] \o sep \o Join(Tail(parts), sep)

----------------------------------------------------------------------------
(* refine_text *)

\* line 41: line.strip().replace(bullet, '').strip()
CleanLine(line) == Strip(RemoveTok(Strip(line), BUL))

\* lines 44-47: the four rewrites, in the source's order
Simplify(line) ==
    LET a == ReSub(line, <<SP, "JINHAENG", SP, "JUNG">>, << <<"IMNIDA">> >>,
                   <<SP, "JINHAENG">>)
        b == ReSub(a, <<SP, "WANRYO">>, << <<"HAYEOSS">>, <<"HAESS">> >>,
                   <<SP, "WANRYO">>)
        c == ReSub(b, <<SP, "YEJEONG">>, << <<"IMNIDA">> >>, <<SP, "YEJEONG">>)
        d == Replace(c, <<SP, "PALLOEOP">>, <<SP, "F/U">>)
    IN  Replace(d, <<"PALLOUEOP">>, <<SP, "F/U">>)

\* f"(bullet) {line}"
Bullet(line) == <<BUL, SP>> \o line

\* the loop without the test on seen: every line is appended
RECURSIVE RefineLoopNoSeen(_, _, _)
RefineLoopNoSeen(lines, refined_lines, seen) ==
    IF lines = <<>> THEN refined_lines
    ELSE LET line0 == CleanLine(Head(lines))
         IN  IF line0 = <<>> THEN RefineLoopNoSeen(Tail(lines), refined_lines, seen)
             ELSE RefineLoopNoSeen(Tail(lines),
                                   Append(refined_lines, Bullet(Simplify(line0))), seen)

\* lines 40-50: the loop; the set seen holds exactly the lines appended so far
RECURSIVE RefineLoop(_, _, _)
RefineLoop(lines, refined_lines, seen) ==
    IF lines = <<>> THEN refined_lines
    ELSE LET line0 == CleanLine(Head(lines))
             line == Simplify(line0)
         IN  IF line0 = <<>> THEN RefineLoop(Tail(lines), refined_lines, seen)
             ELSE IF line \notin seen
                  THEN RefineLoop(Tail(lines), Append(refined_lines, Bullet(line)),
                                  seen \cup {line})
                  ELSE RefineLoop(Tail(lines), refined_lines, seen)

refine_text(text) ==
    IF text = <<>> \/ LowerText(text) = <<"nan">> \/ text = <<DASH>>
    THEN <<DASH>>
    ELSE LET refined_lines == RefineLoop(SplitLines(text), <<>>, {})
         IN  IF refined_lines # <<>> THEN Join(refined_lines, <<NL>>) ELSE <<DASH>>

----------------------------------------------------------------------------
(* SpecRefine: refine_text applied to a text, and again to its result *)

MaxSegs == 4

\* the pieces a text is put together from
Segments == { <<"x">>, <<SP>>, <<NL>>, <<BUL>>, <<DASH>>,
              <<SP, "JINHAENG", SP, "JUNG">>, <<"IMNIDA">>,
              <<"PALLOUEOP">>, <<SP, "WANRYO">>, <<"HAESS">> }

RECURSIVE Flatten(_)
Flatten(ss) == IF ss = <<>> THEN <<>> ELSE Head(ss) \o Flatten(Tail(ss))

Type(seg) ==
    /\ phase = "text"
    /\ Len(segs) < MaxSegs
    /\ segs' = Append(segs, seg)
    /\ UNCHANGED <<phase, refined, refined2>>

Refine ==
    /\ phase = "text"
    /\ refined' = refine_text(Flatten(segs))
    /\ phase' = "once"
    /\ UNCHANGED <<segs, refined2>>

RefineAgain ==
    /\ phase = "once"
    /\ refined2' = refine_text(refined)
    /\ phase' = "twice"
    /\ UNCHANGED <<segs, refined>>

----------------------------------------------------------------------------
(* Cells, ordering of texts, and summarize *)

\* a cell that is absent: NaN in a sheet read by pandas, None in a PDF table
Missing == <<"<missing>">>

\* str(v) of a cell: str(float('nan')) is 'nan'
Str(c) == IF c = Missing THEN <<"nan">> ELSE c

\* the code point of the first character of a token
Code(t) == CASE t = NL -> 10
             [] t = SP -> 32
             [] t = BUL -> 8226
             [] t = DASH -> 45
             [] t = "A" -> 65
             [] t = "F/U" -> 70
             [] t = "NaN" -> 78
             [] t = "P" -> 80
             [] t = "Q" -> 81
             [] t = "ce" -> 99
             [] t = "fi" -> 102
             [] t = "nan" -> 110
             [] t = "x" -> 120
             [] t = "y" -> 121
             [] t = "NAEYONG" -> 45236
             [] t = "MYEONG" -> 47749
             [] t = "TIMWON" -> 54016
             [] t = "PROJEKT" -> 54532
             [] OTHER -> 50000

\* a < b for Python strings: code point order, a proper prefix first
RECURSIVE LessText(_, _)
LessText(a, b) ==
    IF b = <<>> THEN FALSE
    ELSE IF a = <<>> THEN TRUE
    ELSE IF Head(a) = Head(b) THEN LessText(Tail(a), Tail(b))
    ELSE Code(Head(a)) < Code(Head(b))

\* the texts of a set in ascending order
RECURSIVE SortedTexts(_)
SortedTexts(S) ==
    IF S = {} THEN <<>>
    ELSE LET m == CHOOSE a \in S : \A b \in S \ {a} : LessText(a, b)
         IN  <<m>> \o SortedTexts(S \ {m})

\* line 97: df[project] = df[project].astype(str).str.strip()
StripProject(rs) ==
    [i \in 1..Len(rs) |-> <<rs[i][1], Strip(Str(rs[i][2])), rs[i][3]>>]

\* str.contains('PROJEKT|TIMWON|nan', case=False)
ContainsMarker(p) ==
    \E i \in 1..Len(p) : Lower(p[i]) \in {"PROJEKT", "TIMWON", "nan"}

\* the filter left out: every row is kept
FilterRowsKeepAll(rs) == rs

\* line 98: the rows whose project contains no marker
FilterRows(rs) == SelectSeq(rs, LAMBDA r : ~ContainsMarker(r[2]))

\* the task column of the rows of project p, in row order, each through str
TasksOf(rs, p) ==
    LET mine == SelectSeq(rs, LAMBDA r : r[2] = p)
    IN  [i \in 1..Len(mine) |-> Str(mine[i][3])]

\* line 99: one row per project, keys ascending (groupby sorts its keys),
\* text = refine_text of the project's tasks joined by newlines
GroupBy(rs) ==
    LET keys == SortedTexts({rs[i][2] : i \in 1..Len(rs)})
    IN  [k \in 1..Len(keys) |->
            [project |-> keys[k],
             text |-> refine_text(Join(TasksOf(rs, keys[k]), <<NL>>))]]

\* lines 94-100; the frame without rows is <<>>
summarize(rs) ==
    IF rs = <<>> THEN <<>>
    ELSE GroupBy(FilterRows(StripProject(rs)))

----------------------------------------------------------------------------
(* SpecSummarize: summarize applied to one period's raw record list *)

MaxRecs == 3

Contributor == <<"A">>

\* what the two readers can put in the project column of a raw record
RawProjects == { <<"P">>, <<SP, "P">>, <<"Q">>, <<"fi", "nan", "ce">>, <<"TIMWON">> }
\* and in its task column
RawTasks == { <<"x">>, <<"y">>, <<DASH>>, Missing, <<"TIMWON">> }

AddRecord(p, t) ==
    /\ phase = "records"
    /\ Len(rows) < MaxRecs
    /\ rows' = Append(rows, <<Contributor, p, t>>)
    /\ UNCHANGED <<phase, grouped>>

Summarize ==
    /\ phase = "records"
    /\ grouped' = summarize(rows)
    /\ phase' = "summarized"
    /\ UNCHANGED rows

----------------------------------------------------------------------------
(* process_report_data *)

\* column c of a row (the source counts columns from 0)
Cell(r, c) == r[c + 1]

\* a truthy cell of a PDF table: neither None nor ''
Truthy(c) == c # Missing /\ c # <<>>

\* line 80: some cell, through str and strip, is the header label itself
IsHeaderExcel(r) ==
    \E i \in 1..Len(r) : Strip(Str(r[i])) \in { <<"PROJEKT">>, <<"TIMWON">> }

\* lines 67-68: some truthy cell contains a header label
IsHeaderPdf(r) ==
    \E i \in 1..Len(r) :
        /\ Truthy(r[i])
        /\ \E k \in 1..Len(r[i]) : r[i][k] \in {"PROJEKT", "TIMWON"}

IsHeader(kind, r) == IF kind = "pdf" THEN IsHeaderPdf(r) ELSE IsHeaderExcel(r)

\* lines 65-69 and 77-81: the first header row; 0 stands for h_idx = -1
HeaderIndex(kind, g) ==
    IF \E i \in 1..Len(g) : IsHeader(kind, g[i])
    THEN CHOOSE i \in 1..Len(g) :
            /\ IsHeader(kind, g[i])
            /\ \A j \in 1..(i - 1) : ~IsHeader(kind, g[j])
    ELSE 0

\* lines 89 and 91: the block at columns c..c+2 is taken when the row is wide
\* enough and its project is present and not blank; the task is not looked at
ExcelTakes(r, c) ==
    /\ Len(r) >= c + 3
    /\ Cell(r, c + 1) # Missing
    /\ Strip(Str(Cell(r, c + 1))) # <<>>

\* lines 72 and 73: project and task both truthy
PdfTakes(r, c) ==
    /\ Len(r) >= c + 3
    /\ Truthy(Cell(r, c + 1))
    /\ Truthy(Cell(r, c + 2))

Takes(kind, r, c) == IF kind = "pdf" THEN PdfTakes(r, c) ELSE ExcelTakes(r, c)

\* the raw record list of the block at columns c..c+2 over the rows after the header
RawList(kind, g, h, c) ==
    LET data == SubSeq(g, h + 1, Len(g))
        taken == SelectSeq(data, LAMBDA r : Takes(kind, r, c))
    IN  [i \in 1..Len(taken) |->
            <<Cell(taken[i], c), Cell(taken[i], c + 1), Cell(taken[i], c + 2)>>]

\* the text of project p in a summary, Missing (NaN) when p has no row there
TextIn(res, p) ==
    IF \E i \in 1..Len(res) : res[i].project = p
    THEN (CHOOSE r \in {res[i] : i \in 1..Len(res)} : r.project = p).text
    ELSE Missing

\* the frames put one under the other instead of joined on the project
MergeConcat(res_this, res_next) ==
    [i \in 1..Len(res_this) |->
        [project |-> res_this[i].project, this_week |-> res_this[i].text,
         next_week |-> Missing]]
    \o [i \in 1..Len(res_next) |->
        [project |-> res_next[i].project, this_week |-> Missing,
         next_week |-> res_next[i].text]]

\* line 109, pd.merge(how='outer'): one row per key of either side (a key is
\* unique within a side), keys in ascending order
Merge(res_this, res_next) ==
    LET keys == SortedTexts({res_this[i].project : i \in 1..Len(res_this)}
                            \cup {res_next[i].project : i \in 1..Len(res_next)})
    IN  [k \in 1..Len(keys) |->
            [project |-> keys[k],
             this_week |-> TextIn(res_this, keys[k]),
             next_week |-> TextIn(res_next, keys[k])]]

\* the fill left out: NaN stays
FillNaForgotten(c) == c

\* line 109, .fillna("-")
FillNa(c) == IF c = Missing THEN <<DASH>> ELSE c

FillNaRows(t) ==
    [i \in 1..Len(t) |->
        [project |-> FillNa(t[i].project),
         this_week |-> FillNa(t[i].this_week),
         next_week |-> FillNa(t[i].next_week)]]

\* the place of row r in the sorted table t
RECURSIVE InsertRow(_, _)
InsertRow(t, r) ==
    IF t = <<>> THEN <<r>>
    ELSE IF LessText(r.project, Head(t).project) THEN <<r>> \o t
    ELSE <<Head(t)>> \o InsertRow(Tail(t), r)

\* line 111, sort_values on the project name
RECURSIVE SortRows(_)
SortRows(t) ==
    IF t = <<>> THEN <<>>
    ELSE InsertRow(SortRows(SubSeq(t, 1, Len(t) - 1)), t[Len(t)])

NoTable == [none |-> TRUE, table |-> <<>>]
Frame(t) == [none |-> FALSE, table |-> t]

\* lines 54-115: what is shown and what is returned.  A PDF is a single page
\* table; a page without a table (line 62) is the grid <<>>.  No step of the
\* run raises on the grids of this model, so the except branch (lines 113-115)
\* is not taken.
process_report_data(kind, g) ==
    LET h == HeaderIndex(kind, g)
        res_this == summarize(RawList(kind, g, h, 0))
        res_next == summarize(RawList(kind, g, h, 4))
    IN  IF kind # "pdf" /\ h = 0
        THEN [message |-> "error: header not found", df |-> NoTable]
        ELSE IF h = 0
        THEN [message |-> "warning: no data extracted", df |-> NoTable]
        ELSE IF res_this = <<>> /\ res_next = <<>>
        THEN [message |-> "warning: no data extracted", df |-> NoTable]
        ELSE [message |-> "none",
              df |-> Frame(SortRows(FillNaRows(Merge(res_this, res_next))))]

----------------------------------------------------------------------------
(* Spec: a file is uploaded, converted, and another may follow *)

MaxRows == 2

\* the first row of a file: the header of the layout, full or this-week only,
\* a header whose labels carry a suffix, or a title line
TopRows ==
    { << <<"TIMWON">>, <<"PROJEKT">>, <<"NAEYONG">>, Missing,
         <<"TIMWON">>, <<"PROJEKT">>, <<"NAEYONG">> >>,
      << <<"TIMWON">>, <<"PROJEKT">>, <<"NAEYONG">> >>,
      << <<"TIMWON", "MYEONG">>, <<"PROJEKT", "MYEONG">>, <<"NAEYONG">>, Missing,
         <<"TIMWON", "MYEONG">>, <<"PROJEKT", "MYEONG">>, <<"NAEYONG">> >>,
      << <<"x">>, Missing, Missing, Missing, Missing, Missing, Missing >> }

\* the (project, task) pairs a block of a data row is drawn from
Blocks ==
    { <<Missing, Missing>>,
      <<<<SP, "P">>, <<"x">>>>,
      <<<<"P">>, <<DASH>>>>,
      <<<<"Q">>, <<"x">>>>,
      <<<<"Q">>, Missing>>,
      <<<<"Q">>, <<SP>>>>,
      <<<<"fi", "nan", "ce">>, <<"x">>>> }

\* the three cells of a block: a contributor beside a project
BlockCells(b) == <<IF b[1] = Missing THEN Missing ELSE Contributor, b[1], b[2]>>

DataRow(width, b1, b2) ==
    IF width >= 7 THEN BlockCells(b1) \o <<Missing>> \o BlockCells(b2)
    ELSE BlockCells(b1)

\* the first row of the file
AddTopRow(r) ==
    /\ phase = "upload"
    /\ grid = <<>>
    /\ grid' = <<r>>
    /\ UNCHANGED <<phase, file_kind, message, final_df>>

\* one more data row, as wide as the first row
AddRow(b1, b2) ==
    /\ phase = "upload"
    /\ grid # <<>>
    /\ Len(grid) < 1 + MaxRows
    /\ Len(grid[1]) >= 7 \/ b2 = <<Missing, Missing>>
    /\ grid' = Append(grid, DataRow(Len(grid[1]), b1, b2))
    /\ UNCHANGED <<phase, file_kind, message, final_df>>

Process ==
    /\ phase = "upload"
    /\ LET out == process_report_data(file_kind, grid)
       IN  /\ message' = out.message
           /\ final_df' = out.df
    /\ phase' = "done"
    /\ UNCHANGED <<file_kind, grid>>

\* line 162-164: the host runs again on the next uploaded file
Upload(kind) ==
    /\ phase = "done"
    /\ phase' = "upload"
    /\ file_kind' = kind
    /\ grid' = <<>>
    /\ message' = "none"
    /\ final_df' = NoTable

----------------------------------------------------------------------------
(* The history list and its file *)

MaxHistory == 3
MaxClock == 2

NoFile == [exists |-> FALSE, valid |-> FALSE, json |-> <<>>]
CorruptFile == [exists |-> TRUE, valid |-> FALSE, json |-> <<>>]

\* json.dump of one history item: an object, its members in insertion order
DumpItem(item) ==
    << <<"date", item.date>>, <<"filename", item.filename>>, <<"data", item.data>> >>

\* the value of member key of a JSON object
Member(obj, key) == (CHOOSE m \in {obj[i] : i \in 1..Len(obj)} : m[1] = key)[2]

\* json.load of one object: a dict
LoadItem(obj) ==
    [date |-> Member(obj, "date"), filename |-> Member(obj, "filename"),
     data |-> Member(obj, "data")]

\* lines 27-29: the file is rewritten with the whole list
save_history_to_file(h) ==
    [exists |-> TRUE, valid |-> TRUE, json |-> [i \in 1..Len(h) |-> DumpItem(h[i])]]

\* lines 18-25: the list in the file; [] when it is absent or does not parse
load_history_from_file(f) ==
    IF f.exists /\ f.valid THEN [i \in 1..Len(f.json) |-> LoadItem(f.json[i])]
    ELSE <<>>

\* the file left in place
RemoveFileForgotten(f) == f

\* line 223: os.remove when the file exists
RemoveFile(f) == NoFile

\* line 181: list.insert(0, item)
InsertFirst(h, item) == <<item>> \o h

\* line 217: list.pop(idx), idx counted from 1 here
Pop(h, idx) == SubSeq(h, 1, idx - 1) \o SubSeq(h, idx + 1, Len(h))

FileNames == {"a.xlsx", "b.pdf"}

\* final_df.to_dict('records') of two converted reports
SavedTables ==
    { << [project |-> "P", this_week |-> "* x", next_week |-> "-"] >>,
      << [project |-> "P", this_week |-> "-", next_week |-> "* x"],
         [project |-> "Q", this_week |-> "* x", next_week |-> "* x"] >> }

\* lines 175-183: the save button under a converted report
SaveToHistory(name, table) ==
    /\ phase = "session"
    /\ Len(history) < MaxHistory
    /\ LET history_item == [date |-> clock, filename |-> name, data |-> table]
       IN  /\ history' = InsertFirst(history, history_item)
           /\ history_file' = save_history_to_file(history')
    /\ UNCHANGED clock

\* lines 216-219: the delete button of the entry shown at idx
DeleteOne(idx) ==
    /\ phase = "session"
    /\ idx \in 1..Len(history)
    /\ history' = Pop(history, idx)
    /\ history_file' = save_history_to_file(history')
    /\ UNCHANGED clock

\* lines 222-225: the delete-all button, shown when the list is not empty
DeleteAll ==
    /\ phase = "session"
    /\ history # <<>>
    /\ history_file' = (IF history_file.exists THEN RemoveFile(history_file)
                        ELSE history_file)
    /\ history' = <<>>
    /\ UNCHANGED clock

\* lines 31-32: a new session starts from the file
Restart ==
    /\ phase = "session"
    /\ history' = load_history_from_file(history_file)
    /\ UNCHANGED <<history_file, clock>>

\* time passes
Tick ==
    /\ phase = "session"
    /\ clock < MaxClock
    /\ clock' = clock + 1
    /\ UNCHANGED <<history, history_file>>

\* the files an earlier session can have left
OldItem == [date |-> 0, filename |-> "a.xlsx",
            data |-> << [project |-> "P", this_week |-> "* x", next_week |-> "-"] >>]

FirstFiles == { NoFile, CorruptFile, save_history_to_file(<<>>),
                save_history_to_file(<<OldItem>>) }

----------------------------------------------------------------------------
(* The specifications *)

RefineIdle == segs = <<>> /\ refined = <<>> /\ refined2 = <<>>
SummarizeIdle == rows = <<>> /\ grouped = <<>>
ReportIdle == file_kind = "xlsx" /\ grid = <<>> /\ message = "none" /\ final_df = NoTable
HistoryIdle == history = <<>> /\ history_file = NoFile /\ clock = 0

Init ==
    /\ phase = "upload"
    /\ file_kind \in {"xlsx", "pdf"}
    /\ grid = <<>>
    /\ message = "none"
    /\ final_df = NoTable
    /\ RefineIdle /\ SummarizeIdle /\ HistoryIdle

Next ==
    \/ /\ \E r \in TopRows : AddTopRow(r)
       /\ UNCHANGED <<refineVars, summarizeVars, historyVars>>
    \/ /\ \E b1 \in Blocks, b2 \in Blocks : AddRow(b1, b2)
       /\ UNCHANGED <<refineVars, summarizeVars, historyVars>>
    \/ /\ Process
       /\ UNCHANGED <<refineVars, summarizeVars, historyVars>>
    \/ /\ \E kind \in {"xlsx", "pdf"} : Upload(kind)
       /\ UNCHANGED <<refineVars, summarizeVars, historyVars>>

Spec == Init /\ [][Next]_vars

InitRefine ==
    /\ phase = "text"
    /\ RefineIdle /\ SummarizeIdle /\ ReportIdle /\ HistoryIdle

NextRefine ==
    \/ /\ \E seg \in Segments : Type(seg)
       /\ UNCHANGED <<summarizeVars, reportVars, historyVars>>
    \/ /\ Refine
       /\ UNCHANGED <<summarizeVars, reportVars, historyVars>>
    \/ /\ RefineAgain
       /\ UNCHANGED <<summarizeVars, reportVars, historyVars>>

SpecRefine == InitRefine /\ [][NextRefine]_vars

InitSummarize ==
    /\ phase = "records"
    /\ RefineIdle /\ SummarizeIdle /\ ReportIdle /\ HistoryIdle

NextSummarize ==
    \/ /\ \E p \in RawProjects, t \in RawTasks : AddRecord(p, t)
       /\ UNCHANGED <<refineVars, reportVars, historyVars>>
    \/ /\ Summarize
       /\ UNCHANGED <<refineVars, reportVars, historyVars>>

SpecSummarize == InitSummarize /\ [][NextSummarize]_vars

InitHistory ==
    /\ phase = "session"
    /\ history_file \in FirstFiles
    /\ history = load_history_from_file(history_file)
    /\ clock = 1
    /\ RefineIdle /\ SummarizeIdle /\ ReportIdle

NextHistory ==
    \/ /\ \E name \in FileNames, table \in SavedTables : SaveToHistory(name, table)
       /\ UNCHANGED <<phase, refineVars, summarizeVars, reportVars>>
    \/ /\ \E idx \in 1..MaxHistory : DeleteOne(idx)
       /\ UNCHANGED <<phase, refineVars, summarizeVars, reportVars>>
    \/ /\ DeleteAll
       /\ UNCHANGED <<phase, refineVars, summarizeVars, reportVars>>
    \/ /\ Restart
       /\ UNCHANGED <<phase, refineVars, summarizeVars, reportVars>>
    \/ /\ Tick
       /\ UNCHANGED <<phase, refineVars, summarizeVars, reportVars>>

SpecHistory == InitHistory /\ [][NextHistory]_vars

----------------------------------------------------------------------------
(* What the claims speak of *)

Present(c) == c # Missing
Blank(c) == Strip(c) = <<>>

\* the sentinel values: '', nan, none, the header labels
Sentinels == { <<>>, <<"nan">>, <<"none">>, <<"TIMWON">>, <<"PROJEKT">>, <<"NAEYONG">> }

\* a present cell that is, trimmed and case-insensitively, a sentinel
IsSentinel(c) == LowerText(Strip(c)) \in Sentinels

NoDuplicates(s) == \A i, j \in 1..Len(s) : s[i] = s[j] => i = j

FirstAt(s, x) == CHOOSE i \in 1..Len(s) : s[i] = x /\ \A j \in 1..(i - 1) : s[j] # x

\* b holds each member of e once, in the order of first occurrence in e
DistinctInOrder(b, e) ==
    /\ NoDuplicates(b)
    /\ {b[i] : i \in 1..Len(b)} = {e[i] : i \in 1..Len(e)}
    /\ \A i, j \in 1..Len(b) : i < j => FirstAt(e, b[i]) < FirstAt(e, b[j])

\* the bullet lines of a summary text; the placeholder dash has none
BulletLinesOf(text) == IF text = <<DASH>> THEN <<>> ELSE SplitLines(text)

\* the refined, bulleted lines of one task text: blank lines dropped
RefinedLinesOf(text) ==
    LET ls == SplitLines(text)
        cl == [i \in 1..Len(ls) |-> CleanLine(ls[i])]
        ne == SelectSeq(cl, LAMBDA l : l # <<>>)
    IN  [i \in 1..Len(ne) |-> Bullet(Simplify(ne[i]))]

\* the refined lines of the tasks of a record list, record after record
RECURSIVE RefinedLinesOfAll(_)
RefinedLinesOfAll(tasks) ==
    IF tasks = <<>> THEN <<>>
    ELSE RefinedLinesOf(Head(tasks)) \o RefinedLinesOfAll(Tail(tasks))

\* the joined text is one that refine_text answers with the dash at once
IsPlaceholderText(text) ==
    text = <<>> \/ text = <<DASH>> \/ LowerText(text) = <<"nan">>

----------------------------------------------------------------------------
(* C4, under SpecRefine *)

\* C4: refine_text is idempotent: refining the refined text changes nothing.
C4_RefineIdempotent == phase = "twice" => refined2 = refined

----------------------------------------------------------------------------
(* C5 and C6, under SpecSummarize *)

\* the tasks, through str, of the records whose trimmed project is p
RecordTasks(p) ==
    LET mine == SelectSeq(rows, LAMBDA r : Strip(Str(r[2])) = p)
    IN  [i \in 1..Len(mine) |-> Str(mine[i][3])]

AllTasksPresent(p) ==
    \A i \in 1..Len(rows) : Strip(Str(rows[i][2])) = p => Present(rows[i][3])

SummaryProjects == {grouped[k].project : k \in 1..Len(grouped)}

SummaryLines(p) ==
    IF p \in SummaryProjects
    THEN LET g == CHOOSE g \in {grouped[k] : k \in 1..Len(grouped)} : g.project = p
         IN  {BulletLinesOf(g.text)[i] : i \in 1..Len(BulletLinesOf(g.text))}
    ELSE {}

\* C6: a record is removed exactly when its trimmed project or task is, without
\* regard to case, a sentinel: a record free of sentinels keeps its project in
\* the summary, a sentinel project has no summary, and a sentinel task gives no
\* bullet line (here for the records whose task is present).
C6_SentinelFilter ==
    phase = "summarized" =>
        \A i \in 1..Len(rows) :
            LET proj == rows[i][2]
                task == rows[i][3]
            IN  Present(task) =>
                  /\ (~IsSentinel(proj) /\ ~IsSentinel(task)) =>
                         Strip(proj) \in SummaryProjects
                  /\ IsSentinel(proj) => Strip(proj) \notin SummaryProjects
                  /\ IsSentinel(task) =>
                         Bullet(Strip(task)) \notin SummaryLines(Strip(proj))

----------------------------------------------------------------------------
(* C1, C2, C3, C7, C8, C9, under Spec *)

Hdr == HeaderIndex(file_kind, grid)
HeaderFound == Hdr # 0
DataRows == SubSeq(grid, Hdr + 1, Len(grid))
Periods == {0, 4}

Table == final_df.table
TableProjects == {Table[i].project : i \in 1..Len(Table)}

\* the text of table row i for the period whose block starts at column c
Column(i, c) == IF c = 0 THEN Table[i].this_week ELSE Table[i].next_week

\* the record of row r in the block at column c survives cleaning: project and
\* task present, not blank once trimmed, and no sentinel
Survives(r, c) ==
    /\ Len(r) >= c + 3
    /\ Present(Cell(r, c + 1)) /\ Present(Cell(r, c + 2))
    /\ ~Blank(Cell(r, c + 1)) /\ ~Blank(Cell(r, c + 2))
    /\ ~IsSentinel(Cell(r, c + 1)) /\ ~IsSentinel(Cell(r, c + 2))

SurvivingProjects(c) ==
    {Strip(Cell(DataRows[i], c + 1)) :
        i \in {k \in 1..Len(DataRows) : Survives(DataRows[k], c)}}

\* the tasks, through str, of the records of project p that the reader of the
\* file collects from the block at column c
CollectedTasks(p, c) ==
    LET raw == RawList(file_kind, grid, Hdr, c)
        mine == SelectSeq(raw, LAMBDA r : Strip(Str(r[2])) = p)
    IN  [i \in 1..Len(mine) |-> Str(mine[i][3])]

\* C1: with a header found, the projects of the table are exactly the projects
\* of the records that survive cleaning in the this-week or the next-week block.
C1_ProjectsAreSurvivors ==
    (phase = "done" /\ HeaderFound) =>
        TableProjects = SurvivingProjects(0) \cup SurvivingProjects(4)

NoLineSurvives(tasks) ==
    \/ IsPlaceholderText(Join(tasks, <<NL>>))
    \/ RefinedLinesOfAll(tasks) = <<>>

C3_StrictlyAscending ==
    (phase = "done" /\ ~final_df.none) =>
        /\ \A i \in 1..(Len(Table) - 1) :
               LessText(Table[i].project, Table[i + 1].project)
        /\ \A i, j \in 1..Len(Table) :
               Strip(Table[i].project) = Strip(Table[j].project) => i = j

\* Q stands above P in the sheet, P is written with and without a leading
\* space, and the table is P then Q
C3_Witness ==
    /\ phase = "done"
    /\ Len(grid) = 3
    /\ Len(grid[3]) >= 7
    /\ Cell(grid[2], 1) = <<"Q">> /\ Cell(grid[3], 1) = <<SP, "P">>
    /\ Cell(grid[3], 5) = <<"P">>
    /\ Len(Table) = 2
    /\ Table[1].project = <<"P">> /\ Table[2].project = <<"Q">>

\* project p has records in the block at column c, none with a task that is
\* present and not blank
OnlyEmptyTasks(p, c) ==
    LET mine == {k \in 1..Len(DataRows) :
                    /\ Len(DataRows[k]) >= c + 3
                    /\ Present(Cell(DataRows[k], c + 1))
                    /\ Strip(Cell(DataRows[k], c + 1)) = p}
    IN  \A k \in mine :
            \/ ~Present(Cell(DataRows[k], c + 2))
            \/ Blank(Cell(DataRows[k], c + 2))

\* C7: a record whose task is missing or blank is dropped: a project with only
\* such records in a period has no summary there (the dash), and with only
\* such records in both periods it has no row.
C7_EmptyTaskDropped ==
    phase = "done" =>
        \A i \in 1..Len(Table) :
            /\ \A c \in Periods :
                   OnlyEmptyTasks(Table[i].project, c) => Column(i, c) = <<DASH>>
            /\ \E c \in Periods : ~OnlyEmptyTasks(Table[i].project, c)

\* C8: when no row of a grid with rows is a header row the run ends in the header error and
\* returns no table, for a sheet and for a PDF, and that outcome is not the
\* one of a file with a header and no valid record.
C8_HeaderNotFound ==
    phase = "done" =>
        /\ (grid # <<>> /\ ~HeaderFound) =>
               message = "error: header not found" /\ final_df.none
        /\ HeaderFound => message # "error: header not found"

KeptByCode(r, c) ==
    /\ Len(r) >= c + 3
    /\ Present(Cell(r, c + 1))
    /\ IF file_kind = "pdf"
       THEN Cell(r, c + 1) # <<>> /\ Present(Cell(r, c + 2)) /\ Cell(r, c + 2) # <<>>
       ELSE ~Blank(Cell(r, c + 1))
    /\ \A k \in 1..Len(Strip(Cell(r, c + 1))) :
           Lower(Strip(Cell(r, c + 1))[k]) \notin {"PROJEKT", "TIMWON", "nan"}

NothingKept ==
    \A i \in 1..Len(DataRows) : \A c \in Periods : ~KeptByCode(DataRows[i], c)

\* the host takes the next file
HostGoesOn == ENABLED (\E kind \in {"xlsx", "pdf"} : Upload(kind))

----------------------------------------------------------------------------
(* C10, under SpecHistory *)

NewestFirst(h) == \A i \in 1..(Len(h) - 1) : h[i].date >= h[i + 1].date

\* C10: what load_history_from_file reads back is the list in memory, newest
\* record first.
C10_HistoryMirror ==
    phase = "session" =>
        /\ load_history_from_file(history_file) = history
        /\ NewestFirst(history)

\* two records saved in this session, the later one first, and written to the file
C10_Witness ==
    /\ phase = "session"
    /\ Len(history) = 2
    /\ history[1].date > history[2].date
    /\ history[2].date > 0
    /\ history_file.exists

====
